---- MODULE Spec2Model ----
(***************************************************************************)
(* A model of the sudoku package (src/sudoku.go, the latest revision of    *)
(* the file, lines 136-574): the Candidates bitmask, Board, the annotator  *)
(* (AnnotatedBoard.Annotate), and the solvers SingleCandidate / Backtrack. *)
(* A caller holds a Board, annotates it with NewAnnotatedBoard and hands   *)
(* the annotated board to one of the solvers.                              *)
(***************************************************************************)
EXTENDS Integers, Sequences, FiniteSets, TLC

\* Side length of the boards of the model: the 4x4 boards of the tests.
Size == 4

\* How many further cells of an unsolved test board a caller may have emptied.
MaxBlanks == 3

\* Largest positive maxSolutions a caller passes to a solver.
MaxK == 2

\* How many of the first draws of the shuffle are free; the later draws are
\* j = i, which leaves the field where it is.
MaxShuffled == 3

\* Largest value held by the Candidates a caller of its methods builds, and
\* largest size it passes to Complement and allCandidates.
MaxValue == 9

VARIABLES
    bo,            \* the caller's Board
    ab,            \* the caller's AnnotatedBoard: [Board, Candidates]
    err,           \* the error NewAnnotatedBoard returned: "" or "Not Solvable."
    pc,            \* which call the caller made last
    maxSolutions,  \* the maxSolutions argument of the last solver call
    solved,        \* the boolean a solver returned
    solutions,     \* the slice of boards a solver returned
    annotateErr,   \* the error of the last Annotate inside SingleCandidate (dropped by the code)
    scans,         \* how many scans the loop of SingleCandidate made
    lin,           \* the AnnotatedBoard the caller passed to CandidateLines last
    ab2,           \* the AnnotatedBoard CandidateLines returned
    succeeded,     \* the boolean CandidateLines returned
    candidates,    \* the Candidates a caller of its methods holds (the receiver c)
    arg,           \* the argument of the last call of a Candidates method
    res,           \* what that call returned
    heap,          \* the backing arrays of all boards and candidate grids made so far
    boAt,          \* where in heap the caller's Board is stored
    abAt,          \* where the caller's AnnotatedBoard is stored: [Board, Candidates]
    resAt,         \* where the results of the caller's last call are stored
    random,        \* the solved board a caller passes to GenerateSimple
    minimum,       \* the minimum it passes
    draws,         \* what rand.Intn returned in the shuffle, one number per field
    unsolved       \* the board GenerateSimple returned

solverVars == <<maxSolutions, solved, solutions, annotateErr, scans>>
linesVars == <<lin, ab2, succeeded>>
candVars == <<candidates, arg, res>>

heapVars == <<heap, boAt, abAt, resAt>>

genVars == <<random, minimum, draws, unsolved>>

\* The variables of the callers that hold no board value.
otherVars == <<candVars, heapVars, genVars>>

vars == <<bo, ab, err, pc, solverVars, linesVars, otherVars>>

Idx == 0 .. (Size - 1)
Values == 1 .. Size

\* The most negative int: what int(math.Log2(0)) = int(-Inf) yields on the
\* 64-bit Go ports (represented by the most negative integer of the checker).
MinInt == (-2147483647) - 1

(***************************************************************************)
(* Bit operations of Go on non-negative ints.                              *)
(***************************************************************************)
RECURSIVE BitAnd(_, _)
BitAnd(a, b) ==
    IF a = 0 \/ b = 0 THEN 0
    ELSE (a % 2) * (b % 2) + 2 * BitAnd(a \div 2, b \div 2)

RECURSIVE BitAndNot(_, _)
BitAndNot(a, b) ==
    IF a = 0 THEN 0
    ELSE (IF a % 2 = 1 /\ b % 2 = 0 THEN 1 ELSE 0) + 2 * BitAndNot(a \div 2, b \div 2)

(***************************************************************************)
(* Helpers.                                                                *)
(***************************************************************************)
\* int(math.Sqrt(float64(i))): the integer part of the square root.
RECURSIVE sqrtFrom(_, _)
sqrtFrom(i, r) == IF (r + 1) * (r + 1) > i THEN r ELSE sqrtFrom(i, r + 1)

sqrt(i) == sqrtFrom(i, 0)

pow2(exp) == 2 ^ exp

log2(i) ==
    IF i > 0 THEN CHOOSE e \in 0 .. 30 : 2 ^ e <= i /\ i < 2 ^ (e + 1)
    ELSE MinInt

(***************************************************************************)
(* Candidates.                                                             *)
(***************************************************************************)
\* c | 1<<v
Add(c, v) == IF (c \div 2 ^ v) % 2 = 1 THEN c ELSE c + 2 ^ v

\* Mutant: c ^ (1 << v), which sets the bit when it was not set.
RemoveToggle(c, v) == IF (c \div 2 ^ v) % 2 = 1 THEN c - 2 ^ v ELSE c + 2 ^ v

\* c &^ (1 << v)
Remove(c, v) == IF (c \div 2 ^ v) % 2 = 1 THEN c - 2 ^ v ELSE c

\* c & (1<<v) != 0
Contains(c, v) == (c \div 2 ^ v) % 2 = 1

\* c > 0 && c & (c-1) == 0
Single(c) == c > 0 /\ BitAnd(c, c - 1) = 0

\* Mutant: the set bits listed in ascending order.
RECURSIVE DecimalsAscendingLoop(_, _, _)
DecimalsAscendingLoop(c, v, dcs) ==
    IF 2 ^ v > c THEN dcs
    ELSE DecimalsAscendingLoop(c, v + 1,
            IF (c \div 2 ^ v) % 2 = 1 THEN Append(dcs, v) ELSE dcs)

DecimalsAscending(c) == IF c > 0 THEN DecimalsAscendingLoop(c, 1, <<>>) ELSE <<>>

RECURSIVE DecimalsLoop(_, _, _)
DecimalsLoop(i, max, dcs) ==
    IF max > 0
    THEN LET sq == pow2(max)
         IN  IF sq <= i
             THEN DecimalsLoop(i - sq, max - 1, Append(dcs, max))
             ELSE DecimalsLoop(i, max - 1, dcs)
    ELSE dcs

Decimals(c) == DecimalsLoop(c, log2(c), <<>>)

RECURSIVE allCandidatesLoop(_, _)
allCandidatesLoop(size, c) ==
    IF size > 0 THEN allCandidatesLoop(size - 1, Add(c, size)) ELSE c

allCandidates(size) == allCandidatesLoop(size, 0)

\* allCandidates(size) - c
Complement(c, size) == allCandidates(size) - c

newBlockCandidates(size) == [y \in 0 .. (size - 1) |-> [x \in 0 .. (size - 1) |-> 0]]

(***************************************************************************)
(* Board.                                                                  *)
(***************************************************************************)
NewEmptyBoard(size) == [y \in 0 .. (size - 1) |-> [x \in 0 .. (size - 1) |-> 0]]

BoardSize(b) == Cardinality(DOMAIN b[0])

\* FirstEmpty: the first cell holding 0 in row-major order, as [y, x, found].
RECURSIVE FirstEmptyFrom(_, _, _)
FirstEmptyFrom(b, size, i) ==
    IF i = size * size THEN [y |-> size - 1, x |-> size - 1, found |-> FALSE]
    ELSE IF b[i \div size][i % size] = 0
         THEN [y |-> i \div size, x |-> i % size, found |-> TRUE]
         ELSE FirstEmptyFrom(b, size, i + 1)

FirstEmpty(b) == FirstEmptyFrom(b, BoardSize(b), 0)

Full(b) == ~FirstEmpty(b).found

(***************************************************************************)
(* AnnotatedBoard.Annotate.                                                *)
(***************************************************************************)
\* The first loop of Annotate from cell i on (row-major): the accumulators
\* and the candidate grid, or the early return with the error.
RECURSIVE AnnotateScan(_, _, _, _)

\* Mutant: the first loop without the look into the block accumulator.
RECURSIVE AnnotateScanNoBlockCheck(_, _, _, _)
AnnotateScanNoBlockCheck(b, size, i, acc) ==
    IF i = size * size THEN acc
    ELSE LET y == i \div size
             x == i % size
             rt == sqrt(size)
             v == b[y][x]
         IN  IF v > 0
             THEN IF Contains(acc.rows[y], v) \/ Contains(acc.cols[x], v)
                  THEN [acc EXCEPT !.err = "Not Solvable."]
                  ELSE AnnotateScanNoBlockCheck(b, size, i + 1,
                         [acc EXCEPT !.cands[y][x] = Add(@, v),
                                     !.rows[y] = Add(@, v),
                                     !.cols[x] = Add(@, v),
                                     !.blocks[y \div rt][x \div rt] = Add(@, v)])
             ELSE AnnotateScanNoBlockCheck(b, size, i + 1, acc)

AnnotateScan(b, size, i, acc) ==
    IF i = size * size THEN acc
    ELSE LET y == i \div size
             x == i % size
             rt == sqrt(size)
             v == b[y][x]
         IN  IF v > 0
             THEN IF \/ Contains(acc.rows[y], v)
                     \/ Contains(acc.cols[x], v)
                     \/ Contains(acc.blocks[y \div rt][x \div rt], v)
                  THEN [acc EXCEPT !.err = "Not Solvable."]
                  ELSE AnnotateScan(b, size, i + 1,
                         [acc EXCEPT !.cands[y][x] = Add(@, v),
                                     !.rows[y] = Add(@, v),
                                     !.cols[x] = Add(@, v),
                                     !.blocks[y \div rt][x \div rt] = Add(@, v)])
             ELSE AnnotateScan(b, size, i + 1, acc)

\* Mutant: the candidates of an empty cell leave out the values of its block.
AnnotateIgnoreBlocks(a) ==
    LET size == BoardSize(a.Board)
        rt == sqrt(size)
        all == allCandidates(size)
        acc == AnnotateScan(a.Board, size, 0,
                 [rows |-> [y \in 0 .. (size - 1) |-> 0],
                  cols |-> [x \in 0 .. (size - 1) |-> 0],
                  blocks |-> newBlockCandidates(rt),
                  cands |-> newBlockCandidates(size),
                  err |-> ""])
    IN  IF acc.err # ""
        THEN [Board |-> a.Board, Candidates |-> acc.cands, err |-> acc.err]
        ELSE [Board |-> a.Board,
              Candidates |->
                [y \in 0 .. (size - 1) |-> [x \in 0 .. (size - 1) |->
                    IF acc.cands[y][x] > 1
                    THEN acc.cands[y][x]
                    ELSE BitAndNot(BitAndNot(all, acc.rows[y]), acc.cols[x])]],
              err |-> ""]

\* Annotate: [Board, Candidates, err].  On the error the candidate grid is
\* returned as far as the first loop got.
Annotate(a) ==
    LET size == BoardSize(a.Board)
        rt == sqrt(size)
        all == allCandidates(size)
        acc == AnnotateScan(a.Board, size, 0,
                 [rows |-> [y \in 0 .. (size - 1) |-> 0],
                  cols |-> [x \in 0 .. (size - 1) |-> 0],
                  blocks |-> newBlockCandidates(rt),
                  cands |-> newBlockCandidates(size),
                  err |-> ""])
    IN  IF acc.err # ""
        THEN [Board |-> a.Board, Candidates |-> acc.cands, err |-> acc.err]
        ELSE [Board |-> a.Board,
              Candidates |->
                [y \in 0 .. (size - 1) |-> [x \in 0 .. (size - 1) |->
                    IF acc.cands[y][x] > 1
                    THEN acc.cands[y][x]
                    ELSE BitAndNot(BitAndNot(BitAndNot(all,
                                                       acc.rows[y]),
                                             acc.cols[x]),
                                   acc.blocks[y \div rt][x \div rt])]],
              err |-> ""]

NewAnnotatedBoard(b) == Annotate([Board |-> b, Candidates |-> <<>>])

\* Mutant: solved as soon as the board is full.
SolvedWhenFull(a) == Full(a.Board)

Solved(a) ==
    \A y \in DOMAIN a.Candidates : \A x \in DOMAIN a.Candidates[y] :
        Single(a.Candidates[y][x])

(***************************************************************************)
(* SingleCandidate.                                                        *)
(***************************************************************************)
\* Mutant: a scan that fills every empty cell that has any candidate.
SingleCandidateScanAny(a) ==
    LET hit(y, x) == a.Candidates[y][x] > 1 /\ ~(a.Board[y][x] > 0)
    IN  [Board |-> [y \in DOMAIN a.Candidates |-> [x \in DOMAIN a.Candidates[y] |->
                       IF hit(y, x) THEN Decimals(a.Candidates[y][x])[1]
                       ELSE a.Board[y][x]]],
         solvable |-> \E y \in DOMAIN a.Candidates : \E x \in DOMAIN a.Candidates[y] :
                         hit(y, x)]

\* Mutant: a scan that also fills the empty cells with two candidates.
SingleCandidateScanPairs(a) ==
    LET hit(y, x) == /\ Len(Decimals(a.Candidates[y][x])) \in {1, 2}
                     /\ ~(a.Board[y][x] > 0)
    IN  [Board |-> [y \in DOMAIN a.Candidates |-> [x \in DOMAIN a.Candidates[y] |->
                       IF hit(y, x) THEN Decimals(a.Candidates[y][x])[1]
                       ELSE a.Board[y][x]]],
         solvable |-> \E y \in DOMAIN a.Candidates : \E x \in DOMAIN a.Candidates[y] :
                         hit(y, x)]

\* One scan of the loop body: every empty cell whose candidates (as they
\* were when the scan began) are single is filled with Decimals()[0].
SingleCandidateScan(a) ==
    LET hit(y, x) == Single(a.Candidates[y][x]) /\ ~(a.Board[y][x] > 0)
    IN  [Board |-> [y \in DOMAIN a.Candidates |-> [x \in DOMAIN a.Candidates[y] |->
                       IF hit(y, x) THEN Decimals(a.Candidates[y][x])[1]
                       ELSE a.Board[y][x]]],
         solvable |-> \E y \in DOMAIN a.Candidates : \E x \in DOMAIN a.Candidates[y] :
                         hit(y, x)]

\* The loop "for solvable": scan, re-annotate (the error is dropped), repeat
\* while the scan filled a cell.  n counts the scans made.
RECURSIVE SingleCandidateLoop(_, _)

\* Mutant: one scan and one re-annotation, no repetition.
SingleCandidateLoopOnce(a, n) ==
    LET sc == SingleCandidateScan(a)
    IN  [ab |-> Annotate([Board |-> sc.Board, Candidates |-> a.Candidates]),
         scans |-> n + 1]

\* Mutant: one more scan is made after the scan that filled nothing.
SingleCandidateLoopScanAgain(a, n) ==
    LET sc == SingleCandidateScan(a)
        a2 == Annotate([Board |-> sc.Board, Candidates |-> a.Candidates])
    IN  IF sc.solvable
        THEN SingleCandidateLoop(a2, n + 1)
        ELSE [ab |-> Annotate([Board |-> SingleCandidateScan(a2).Board,
                               Candidates |-> a2.Candidates]),
              scans |-> n + 2]

SingleCandidateLoop(a, n) ==
    LET sc == SingleCandidateScan(a)
        a2 == Annotate([Board |-> sc.Board, Candidates |-> a.Candidates])
    IN  IF sc.solvable
        THEN SingleCandidateLoop(a2, n + 1)
        ELSE [ab |-> a2, scans |-> n + 1]

SingleCandidate(a, k) ==
    LET r == SingleCandidateLoop(a, 0)
    IN  [solved |-> Solved(r.ab), solutions |-> <<r.ab.Board>>, scans |-> r.scans,
         err |-> r.ab.err]

(***************************************************************************)
(* Backtrack.                                                              *)
(***************************************************************************)
RECURSIVE backtrack(_, _, _)
RECURSIVE backtrackValues(_, _, _, _, _, _, _)

\* The loop over Decimals() of the first empty cell, from the j-th value on.
backtrackValues(a, y, x, dcs, j, k, sols) ==
    IF j > Len(dcs) THEN [stop |-> FALSE, solutions |-> sols]
    ELSE LET a2 == [a EXCEPT !.Board[y][x] = dcs[j]]
             r == backtrack(a2, k, sols)
         IN  IF r.stop THEN r
             ELSE backtrackValues(a2, y, x, dcs, j + 1, k, r.solutions)

\* Mutant: the search stops only when more than k solutions were found.
backtrackStopLate(a, k, sols) ==
    LET a1 == Annotate(a)
    IN  IF a1.err # "" THEN [stop |-> FALSE, solutions |-> sols]
        ELSE LET fe == FirstEmpty(a1.Board)
             IN  IF ~fe.found
                 THEN LET sols2 == Append(sols, a1.Board)
                      IN  [stop |-> Len(sols2) > k, solutions |-> sols2]
                 ELSE backtrackValues(a1, fe.y, fe.x,
                                      Decimals(a1.Candidates[fe.y][fe.x]), 1, k, sols)

\* Mutant: the error of Annotate is dropped.
backtrackIgnoreErr(a, k, sols) ==
    LET a1 == Annotate(a)
        fe == FirstEmpty(a1.Board)
    IN  IF ~fe.found
        THEN LET sols2 == Append(sols, a1.Board)
             IN  [stop |-> Len(sols2) >= k, solutions |-> sols2]
        ELSE backtrackValues(a1, fe.y, fe.x,
                             Decimals(a1.Candidates[fe.y][fe.x]), 1, k, sols)

backtrack(a, k, sols) ==
    LET a1 == Annotate(a)
    IN  IF a1.err # "" THEN [stop |-> FALSE, solutions |-> sols]
        ELSE LET fe == FirstEmpty(a1.Board)
             IN  IF ~fe.found
                 THEN LET sols2 == Append(sols, a1.Board)
                      IN  [stop |-> Len(sols2) >= k, solutions |-> sols2]
                 ELSE backtrackValues(a1, fe.y, fe.x,
                                      Decimals(a1.Candidates[fe.y][fe.x]), 1, k, sols)

Backtrack(a, k) ==
    LET r == backtrack(a, k, <<>>)
    IN  [solved |-> r.stop, solutions |-> r.solutions]

(***************************************************************************)
(* CandidateLines.                                                         *)
(***************************************************************************)
\* allCandidates(size) with the one-based indices of the lines of block blk
\* removed, one Remove per line of the block.
RECURSIVE notInBlock(_, _, _, _)
notInBlock(c, blk, blockSize, inBlk) ==
    IF inBlk = blockSize THEN c
    ELSE notInBlock(Remove(c, blk * blockSize + inBlk + 1), blk, blockSize, inBlk + 1)

rowsNotInBlock(size, blockSize, blkY) == notInBlock(allCandidates(size), blkY, blockSize, 0)

\* Mutant: the columns of the block are not taken out.
colsNotInBlockAll(size, blockSize, blkX) == allCandidates(size)

colsNotInBlock(size, blockSize, blkX) == notInBlock(allCandidates(size), blkX, blockSize, 0)

\* The maps inRows and inCols of one block: for each value the one-based rows
\* (columns) of the block in which the value is a candidate.  A key the code
\* never sets reads as 0.  cands is the grid the code reads: ab2.Candidates.
RECURSIVE addDecimals(_, _, _, _)
addDecimals(m, dcs, j, line) ==
    IF j > Len(dcs) THEN m
    ELSE addDecimals([m EXCEPT ![dcs[j]] = Add(@, line + 1)], dcs, j + 1, line)

RECURSIVE inRowsFrom(_, _, _, _, _, _)
inRowsFrom(cands, blkY, blkX, blockSize, i, m) ==
    IF i = blockSize * blockSize THEN m
    ELSE LET y == blkY * blockSize + (i \div blockSize)
             x == blkX * blockSize + (i % blockSize)
         IN  inRowsFrom(cands, blkY, blkX, blockSize, i + 1,
                        addDecimals(m, Decimals(cands[y][x]), 1, y))

RECURSIVE inColsFrom(_, _, _, _, _, _)
inColsFrom(cands, blkY, blkX, blockSize, i, m) ==
    IF i = blockSize * blockSize THEN m
    ELSE LET y == blkY * blockSize + (i \div blockSize)
             x == blkX * blockSize + (i % blockSize)
         IN  inColsFrom(cands, blkY, blkX, blockSize, i + 1,
                        addDecimals(m, Decimals(cands[y][x]), 1, x))

inRows(cands, size, blockSize, blkY, blkX) ==
    inRowsFrom(cands, blkY, blkX, blockSize, 0, [c \in 1 .. size |-> 0])

inCols(cands, size, blockSize, blkY, blkX) ==
    inColsFrom(cands, blkY, blkX, blockSize, 0, [c \in 1 .. size |-> 0])

\* Mutant: the range loop stops after the first key.
mapKeysFirst(m, ord) == SubSeq(SelectSeq(ord, LAMBDA c : m[c] # 0), 1, 1)

\* The keys of a map in the order a range loop visits them: the order ord
\* of all values, cut down to the keys the map holds.
mapKeys(m, ord) == SelectSeq(ord, LAMBDA c : m[c] # 0)

\* Mutant: succeeded is set for every cell the loop visits.
RECURSIVE removeFromRowsAlways(_, _, _, _, _)
removeFromRowsAlways(st, c, col, rows, i) ==
    IF i > Len(rows) THEN st
    ELSE removeFromRowsAlways([Candidates |->
                                  [st.Candidates EXCEPT ![rows[i] - 1][col] = Remove(@, c)],
                               succeeded |-> TRUE],
                              c, col, rows, i + 1)

\* "for _, row := range rowsNotInBlock.Decimals()": c is removed from column
\* col in the rows outside the block.  st is [Candidates, succeeded].
RECURSIVE removeFromRows(_, _, _, _, _)
removeFromRows(st, c, col, rows, i) ==
    IF i > Len(rows) THEN st
    ELSE LET row == rows[i]
         IN  IF Contains(st.Candidates[row - 1][col], c)
             THEN removeFromRows([Candidates |->
                                     [st.Candidates EXCEPT ![row - 1][col] = Remove(@, c)],
                                  succeeded |-> TRUE],
                                 c, col, rows, i + 1)
             ELSE removeFromRows(st, c, col, rows, i + 1)

\* "for _, col := range colsNotInBlock.Decimals()": c is removed from row row
\* in the columns outside the block.
RECURSIVE removeFromCols(_, _, _, _, _)
removeFromCols(st, c, row, cols, i) ==
    IF i > Len(cols) THEN st
    ELSE LET col == cols[i]
         IN  IF Contains(st.Candidates[row][col - 1], c)
             THEN removeFromCols([Candidates |->
                                     [st.Candidates EXCEPT ![row][col - 1] = Remove(@, c)],
                                  succeeded |-> TRUE],
                                 c, row, cols, i + 1)
             ELSE removeFromCols(st, c, row, cols, i + 1)

\* "for c, cols := range inCols".
RECURSIVE inColsLoop(_, _, _, _, _)
inColsLoop(st, m, keys, k, rowsNot) ==
    IF k > Len(keys) THEN st
    ELSE LET c == keys[k]
             cols == m[c]
         IN  IF Single(cols)
             THEN inColsLoop(removeFromRows(st, c, Decimals(cols)[1] - 1,
                                            Decimals(rowsNot), 1),
                             m, keys, k + 1, rowsNot)
             ELSE inColsLoop(st, m, keys, k + 1, rowsNot)

\* Mutant: the row loop removes for every key, single row or not.
RECURSIVE inRowsLoopAnyRows(_, _, _, _, _)
inRowsLoopAnyRows(st, m, keys, k, colsNot) ==
    IF k > Len(keys) THEN st
    ELSE inRowsLoopAnyRows(removeFromCols(st, keys[k], Decimals(m[keys[k]])[1] - 1,
                                          Decimals(colsNot), 1),
                           m, keys, k + 1, colsNot)

\* "for c, rows := range inRows".
RECURSIVE inRowsLoop(_, _, _, _, _)
inRowsLoop(st, m, keys, k, colsNot) ==
    IF k > Len(keys) THEN st
    ELSE LET c == keys[k]
             rows == m[c]
         IN  IF Single(rows)
             THEN inRowsLoop(removeFromCols(st, c, Decimals(rows)[1] - 1,
                                            Decimals(colsNot), 1),
                             m, keys, k + 1, colsNot)
             ELSE inRowsLoop(st, m, keys, k + 1, colsNot)

\* The body of the loop over blocks for block (blkY, blkX): both maps are
\* built from the grid as it is now, then the column loop and the row loop
\* run.  ordCols and ordRows are the orders the two range loops visit keys in.
linesBlock(st, size, blockSize, blkY, blkX, ordCols, ordRows) ==
    LET rowsNot == rowsNotInBlock(size, blockSize, blkY)
        colsNot == colsNotInBlock(size, blockSize, blkX)
        mRows == inRows(st.Candidates, size, blockSize, blkY, blkX)
        mCols == inCols(st.Candidates, size, blockSize, blkY, blkX)
        st1 == inColsLoop(st, mCols, mapKeys(mCols, ordCols), 1, rowsNot)
    IN  inRowsLoop(st1, mRows, mapKeys(mRows, ordRows), 1, colsNot)

\* The loop over blocks from the i-th block (row-major) on.
RECURSIVE linesBlocks(_, _, _, _, _, _)
linesBlocks(st, size, blockSize, i, ordCols, ordRows) ==
    IF i = blockSize * blockSize THEN st
    ELSE linesBlocks(linesBlock(st, size, blockSize, i \div blockSize, i % blockSize,
                                ordCols, ordRows),
                     size, blockSize, i + 1, ordCols, ordRows)

\* CandidateLines: [ab2, succeeded]; ab2 starts as a copy of ab.
CandidateLines(a, ordCols, ordRows) ==
    LET size == BoardSize(a.Board)
        blockSize == sqrt(size)
        st == linesBlocks([Candidates |-> a.Candidates, succeeded |-> FALSE],
                          size, blockSize, 0, ordCols, ordRows)
    IN  [ab2 |-> [Board |-> a.Board, Candidates |-> st.Candidates],
         succeeded |-> st.succeeded]

(***************************************************************************)
(* GenerateSimple.                                                         *)
(***************************************************************************)
\* The fields {y, x, random[y][x]} in row-major order.
allFields(b) ==
    LET size == BoardSize(b)
    IN  [i \in 1 .. (size * size) |->
            <<(i - 1) \div size, (i - 1) % size, b[(i - 1) \div size][(i - 1) % size]>>]

\* The shuffle from index i on: j := rand.Intn(i + 1), here js[i + 1], and
\* fields[i], fields[j] = fields[j], fields[i].
RECURSIVE shuffle(_, _, _)
shuffle(fields, js, i) ==
    IF i = Len(fields) THEN fields
    ELSE LET j == js[i + 1]
         IN  shuffle([fields EXCEPT ![i + 1] = fields[j + 1], ![j + 1] = fields[i + 1]],
                     js, i + 1)

\* Mutant: a cell stays empty whether the board is still solvable or not.
RECURSIVE removeFieldsNoRestore(_, _, _, _)
removeFieldsNoRestore(b, fields, i, min) ==
    IF i = Len(fields) THEN b
    ELSE LET f == fields[i + 1]
             b1 == [b EXCEPT ![f[1]][f[2]] = 0]
         IN  IF min > 0 /\ min < Len(fields) /\ Len(fields) - i - 1 = min
             THEN b1
             ELSE removeFieldsNoRestore(b1, fields, i + 1, min)

\* The loop "for i, f := range fields" from index i on; b is ab.Board.
RECURSIVE removeFields(_, _, _, _)
removeFields(b, fields, i, min) ==
    IF i = Len(fields) THEN b
    ELSE LET f == fields[i + 1]
             b1 == [b EXCEPT ![f[1]][f[2]] = 0]
             a == Annotate([Board |-> b1, Candidates |-> <<>>])
             solvable == SingleCandidate(a, 1).solved
             restored == [b1 EXCEPT ![f[1]][f[2]] = f[3]]
             fieldCount == Len(fields)
             validMinimum == min > 0 /\ min < fieldCount
             return == validMinimum /\ fieldCount - i - 1 = min
         IN  IF solvable
             THEN IF return THEN b1 ELSE removeFields(b1, fields, i + 1, min)
             ELSE IF return THEN restored ELSE removeFields(restored, fields, i + 1, min)

GenerateSimple(b, min, js) ==
    removeFields(NewAnnotatedBoard(b).Board, shuffle(allFields(b), js, 0), 0, min)

\* NewRandomBoard: row 0 of the empty board set to perm + 1, then one of the
\* first ten solutions of Backtrack, the one rand.Intn picks.
NewRandomBoard(size, perm, pick) ==
    LET a == NewAnnotatedBoard(NewEmptyBoard(size))
        a1 == [Board |-> [a.Board EXCEPT ![0] = [i \in 0 .. (size - 1) |-> perm[i + 1] + 1]],
               Candidates |-> a.Candidates]
        sols == Backtrack(a1, 10).solutions
    IN  sols[(pick % Len(sols)) + 1]


(***************************************************************************)
Row(a, b, c, d) == [x \in Idx |-> <<a, b, c, d>>[x + 1]]
Grid(r0, r1, r2, r3) == [y \in Idx |-> <<r0, r1, r2, r3>>[y + 1]]

solved4 == Grid(Row(1, 2, 3, 4), Row(3, 4, 1, 2), Row(4, 1, 2, 3), Row(2, 3, 4, 1))
unsolved4 == Grid(Row(1, 0, 0, 0), Row(0, 2, 0, 0), Row(0, 0, 3, 0), Row(0, 0, 0, 4))
unsolved4b == Grid(Row(1, 2, 0, 0), Row(3, 0, 0, 2), Row(4, 1, 2, 0), Row(2, 3, 4, 1))
unsolved4c == NewEmptyBoard(Size)

Cells == Idx \X Idx

TestBoards == {solved4, unsolved4, unsolved4b, unsolved4c}

\* b with the cells of S emptied.
Blank(b, S) == [y \in Idx |-> [x \in Idx |-> IF <<y, x>> \in S THEN 0 ELSE b[y][x]]]

\* The unsolved test boards with at most MaxBlanks further cells emptied.
BlankedBoards ==
    {Blank(b, S) : b \in {unsolved4, unsolved4b},
                   S \in {T \in SUBSET Cells : Cardinality(T) <= MaxBlanks}}

\* The test boards with one cell rewritten to any value (duplicates included).
RewrittenBoards ==
    {[b EXCEPT ![c[1]][c[2]] = v] : b \in TestBoards, c \in Cells, v \in 0 .. Size}

InputBoards == TestBoards \cup BlankedBoards \cup RewrittenBoards

Ks == {-1} \cup (1 .. MaxK)

NoBoard == <<>>

\* Nothing called yet: the zero values of the results.
NoCall ==
    /\ ab = [Board |-> NoBoard, Candidates |-> NoBoard]
    /\ err = ""
    /\ pc = "start"
    /\ maxSolutions = 0
    /\ solved = FALSE
    /\ solutions = <<>>
    /\ annotateErr = ""
    /\ scans = 0
    /\ lin = [Board |-> NoBoard, Candidates |-> NoBoard]
    /\ ab2 = [Board |-> NoBoard, Candidates |-> NoBoard]
    /\ succeeded = FALSE

\* No Candidates method called yet.
NoCandidatesCall ==
    /\ candidates = 0
    /\ arg = 0
    /\ res = 0

\* Nothing stored yet.
NoHeap ==
    /\ heap = <<>>
    /\ boAt = 0
    /\ abAt = [Board |-> 0, Candidates |-> 0]
    /\ resAt = <<>>

\* Nothing generated yet.
NoGenerate ==
    /\ random = NoBoard
    /\ minimum = 0
    /\ draws = <<>>
    /\ unsolved = NoBoard

Init ==
    /\ bo \in InputBoards
    /\ NoCall
    /\ NoCandidatesCall
    /\ NoHeap
    /\ NoGenerate

\* annotated, err := NewAnnotatedBoard(bo)
CallNewAnnotatedBoard ==
    /\ pc = "start"
    /\ LET r == NewAnnotatedBoard(bo)
       IN  /\ ab' = [Board |-> r.Board, Candidates |-> r.Candidates]
           /\ err' = r.err
    /\ pc' = "annotated"
    /\ UNCHANGED <<bo, solverVars, linesVars, otherVars>>

\* solved, solutions := SingleCandidate(annotated, k)
CallSingleCandidate ==
    /\ pc = "annotated"
    /\ \E k \in Ks :
         LET r == SingleCandidate(ab, k)
         IN  /\ maxSolutions' = k
             /\ solved' = r.solved
             /\ solutions' = r.solutions
             /\ annotateErr' = r.err
             /\ scans' = r.scans
    /\ pc' = "SingleCandidate"
    /\ UNCHANGED <<bo, ab, err, linesVars, otherVars>>

\* solved, solutions := Backtrack(annotated, k)
CallBacktrack ==
    /\ pc = "annotated"
    /\ \E k \in Ks :
         LET r == Backtrack(ab, k)
         IN  /\ maxSolutions' = k
             /\ solved' = r.solved
             /\ solutions' = r.solutions
    /\ pc' = "Backtrack"
    /\ UNCHANGED <<bo, ab, err, annotateErr, scans, linesVars, otherVars>>

\* solved := annotated.Solved()
CallSolved ==
    /\ pc = "annotated"
    /\ solved' = Solved(ab)
    /\ pc' = "Solved"
    /\ UNCHANGED <<bo, ab, err, maxSolutions, solutions, annotateErr, scans, linesVars,
                   otherVars>>

Next ==
    \/ CallNewAnnotatedBoard
    \/ CallSolved
    \/ CallSingleCandidate
    \/ CallBacktrack

Spec == Init /\ [][Next]_vars

(***************************************************************************)
(* The same caller of SingleCandidate holding a board of side 1 or of side *)
(* Size.                                                                   *)
(***************************************************************************)
SmallBoards == {[y \in {0} |-> [x \in {0} |-> v]] : v \in 0 .. 1}

InitSizes ==
    /\ bo \in InputBoards \cup SmallBoards
    /\ NoCall
    /\ NoCandidatesCall
    /\ NoHeap
    /\ NoGenerate

NextSizes ==
    \/ CallNewAnnotatedBoard
    \/ CallSingleCandidate

SpecSizes == InitSizes /\ [][NextSizes]_vars

(***************************************************************************)
(* A caller of the simplifier: it annotates a board and runs               *)
(* CandidateLines on the result when the annotation returned no error,     *)
(* and again on what that returned while the pass succeeded.               *)
(***************************************************************************)
\* b with one cell rewritten to any value, for every b of B.
Rewrite(B) == {[b EXCEPT ![c[1]][c[2]] = v] : b \in B, c \in Cells, v \in 0 .. Size}

LinesBoards == TestBoards \cup RewrittenBoards \cup Rewrite(Rewrite({unsolved4}))

\* The orders in which a range loop may visit the keys of a map.
\* Each loop picks its own; the model offers ascending and descending keys.
KeyOrders == {[i \in 1 .. Size |-> i], [i \in 1 .. Size |-> Size + 1 - i]}

InitLines ==
    /\ bo \in LinesBoards
    /\ NoCall
    /\ NoCandidatesCall
    /\ NoHeap
    /\ NoGenerate

\* ab2, succeeded := CandidateLines(ab), and then CandidateLines(ab2)
CallCandidateLines ==
    /\ \/ pc = "annotated" /\ err = ""
       \/ pc = "CandidateLines" /\ succeeded
    /\ \E ordCols \in KeyOrders : \E ordRows \in KeyOrders :
         LET in == IF pc = "annotated" THEN ab ELSE ab2
             r == CandidateLines(in, ordCols, ordRows)
         IN  /\ lin' = in
             /\ ab2' = r.ab2
             /\ succeeded' = r.succeeded
    /\ pc' = "CandidateLines"
    /\ UNCHANGED <<bo, ab, err, solverVars, otherVars>>

NextLines ==
    \/ CallNewAnnotatedBoard
    \/ CallCandidateLines

SpecLines == InitLines /\ [][NextLines]_vars

(***************************************************************************)
(* A caller of the methods of Candidates: it holds a Candidates value      *)
(* built by Add from the zero value and calls one method on it.            *)
(***************************************************************************)
\* var c Candidates, then c = c.Add(v) for every v of S.
RECURSIVE AddAll(_, _)
AddAll(c, S) ==
    IF S = {} THEN c
    ELSE LET v == CHOOSE w \in S : TRUE
         IN  AddAll(Add(c, v), S \ {v})

InitCandidates ==
    /\ bo = NoBoard
    /\ NoCall
    /\ candidates \in {AddAll(0, S) : S \in SUBSET (1 .. MaxValue)}
    /\ arg = 0
    /\ res = 0
    /\ NoHeap
    /\ NoGenerate

boardVars == <<bo, ab, err, solverVars, linesVars, heapVars, genVars>>

CallAdd ==
    /\ pc = "start"
    /\ \E v \in 1 .. MaxValue : arg' = v /\ res' = Add(candidates, v)
    /\ pc' = "Add"
    /\ UNCHANGED <<candidates, boardVars>>

CallRemove ==
    /\ pc = "start"
    /\ \E v \in 1 .. MaxValue : arg' = v /\ res' = Remove(candidates, v)
    /\ pc' = "Remove"
    /\ UNCHANGED <<candidates, boardVars>>

CallContains ==
    /\ pc = "start"
    /\ \E v \in 1 .. MaxValue : arg' = v /\ res' = Contains(candidates, v)
    /\ pc' = "Contains"
    /\ UNCHANGED <<candidates, boardVars>>

CallSingle ==
    /\ pc = "start"
    /\ res' = Single(candidates)
    /\ pc' = "Single"
    /\ UNCHANGED <<candidates, arg, boardVars>>

CallDecimals ==
    /\ pc = "start"
    /\ res' = Decimals(candidates)
    /\ pc' = "Decimals"
    /\ UNCHANGED <<candidates, arg, boardVars>>

CallComplement ==
    /\ pc = "start"
    /\ \E size \in 1 .. MaxValue : arg' = size /\ res' = Complement(candidates, size)
    /\ pc' = "Complement"
    /\ UNCHANGED <<candidates, boardVars>>

\* c = allCandidates(size)
CallAllCandidates ==
    /\ pc = "start"
    /\ \E size \in 1 .. MaxValue : arg' = size /\ res' = allCandidates(size)
    /\ pc' = "allCandidates"
    /\ UNCHANGED <<candidates, boardVars>>

NextCandidates ==
    \/ CallAdd
    \/ CallRemove
    \/ CallContains
    \/ CallSingle
    \/ CallDecimals
    \/ CallComplement
    \/ CallAllCandidates

SpecCandidates == InitCandidates /\ [][NextCandidates]_vars

(***************************************************************************)
(* A caller of the generator, as in the test: it takes a solved board from *)
(* NewRandomBoard (or the solved test board) and calls GenerateSimple.     *)
(***************************************************************************)
RandomBoards ==
    {solved4} \cup {NewRandomBoard(Size, perm, pick) :
                        perm \in {<<0, 1, 2, 3>>, <<3, 2, 1, 0>>}, pick \in {0, 9}}

\* minimum: ignored (0), valid, and not less than the number of fields.
Minimums == {0, Size, Size * Size - Size, Size * Size}

\* What rand.Intn(i + 1) may return for i = 0, 1, ...: any j <= i for the
\* first MaxShuffled draws, i for the others.
FreeDraws ==
    {p \in [1 .. MaxShuffled -> 0 .. (MaxShuffled - 1)] :
        \A i \in 1 .. MaxShuffled : p[i] <= i - 1}

Shuffles ==
    {[i \in 1 .. (Size * Size) |-> IF i <= MaxShuffled THEN p[i] ELSE i - 1] :
        p \in FreeDraws}

InitGenerate ==
    /\ bo = NoBoard
    /\ NoCall
    /\ NoCandidatesCall
    /\ NoHeap
    /\ random \in RandomBoards
    /\ minimum \in Minimums
    /\ draws \in Shuffles
    /\ unsolved = NoBoard

\* unsolved := GenerateSimple(solved, minimum)
CallGenerateSimple ==
    /\ pc = "start"
    /\ unsolved' = GenerateSimple(random, minimum, draws)
    /\ pc' = "GenerateSimple"
    /\ UNCHANGED <<bo, ab, err, solverVars, linesVars, candVars, heapVars,
                   random, minimum, draws>>

NextGenerate == CallGenerateSimple

SpecGenerate == InitGenerate /\ [][NextGenerate]_vars

(***************************************************************************)
(* The same calls with the storage of the slices spelled out.  A Board or  *)
(* a candidate grid is a place in heap (a slice shares its backing arrays  *)
(* with every copy of the slice header); make and Copy add a place, an     *)
(* assignment to a cell changes the grid stored at a place.                *)
(***************************************************************************)
\* The grid g stored at a new place: [heap, at].
Store(h, g) == [heap |-> Append(h, g), at |-> Len(h) + 1]

\* Mutant: Copy returns the slice it was given.
BoardCopyShared(h, b) == [heap |-> h, at |-> b]

\* Board.Copy: a new place holding the cells of b.
BoardCopy(h, b) == Store(h, h[b])

\* The AnnotatedBoard stored at a: its Board and Candidates as grids.
Load(h, a) == [Board |-> h[a.Board], Candidates |-> h[a.Candidates]]

\* AnnotatedBoard.Copy: the candidate grid copied, then the board copied.
AnnotatedBoardCopy(h, a) ==
    LET cs == Store(h, h[a.Candidates])
        b == BoardCopy(cs.heap, a.Board)
    IN  [heap |-> b.heap, ab |-> [Board |-> b.at, Candidates |-> cs.at]]

\* Annotate on the board stored at b: the board is copied, the candidates
\* are written to a grid made by newBlockCandidates: [heap, ab, err].
AnnotateAt(h, b) ==
    LET cp == BoardCopy(h, b)
        r == Annotate([Board |-> cp.heap[cp.at], Candidates |-> <<>>])
        cs == Store(cp.heap, r.Candidates)
    IN  [heap |-> cs.heap, ab |-> [Board |-> cp.at, Candidates |-> cs.at], err |-> r.err]

\* NewAnnotatedBoard: AnnotatedBoard{Board: bo.Copy()}, then Annotate.
NewAnnotatedBoardAt(h, b) ==
    LET cp == BoardCopy(h, b)
    IN  AnnotateAt(cp.heap, cp.at)

\* The loop of SingleCandidate: the scan assigns to the cells of ab.Board
\* where it is stored, Annotate then makes ab anew.  r, the result of
\* Annotate, is bound once: CHOOSE out \in {e(r) : r \in {call}}.
RECURSIVE SingleCandidateLoopAt(_, _)
SingleCandidateLoopAt(h, a) ==
    LET sc == SingleCandidateScan(Load(h, a))
    IN  CHOOSE out \in
            {IF sc.solvable
             THEN SingleCandidateLoopAt(r.heap, r.ab)
             ELSE [heap |-> r.heap, ab |-> r.ab] :
                r \in {AnnotateAt([h EXCEPT ![a.Board] = sc.Board], a.Board)}} :
            TRUE

\* SingleCandidate: [heap, solved, solutions], solutions the places of the
\* returned boards, each with the cells it held when it was put in the list.
SingleCandidateAt(h, a, k) ==
    LET cp == AnnotatedBoardCopy(h, a)
        r == SingleCandidateLoopAt(cp.heap, cp.ab)
    IN  [heap |-> r.heap,
         solved |-> Solved(Load(r.heap, r.ab)),
         solutions |-> <<[at |-> r.ab.Board, board |-> r.heap[r.ab.Board]]>>]

RECURSIVE backtrackAt(_, _, _, _)
RECURSIVE backtrackValuesAt(_, _, _, _, _, _, _, _)

\* The loop over Decimals(): ab.Board[y][x] = v assigns where ab.Board is stored.
\* r, the result of the call, is bound once: CHOOSE out \in {e(r) : r \in {call}}.
backtrackValuesAt(h, a, y, x, dcs, j, k, sols) ==
    IF j > Len(dcs) THEN [heap |-> h, stop |-> FALSE, solutions |-> sols]
    ELSE CHOOSE out \in
            {IF r.stop THEN r
             ELSE backtrackValuesAt(r.heap, a, y, x, dcs, j + 1, k, r.solutions) :
                r \in {backtrackAt([h EXCEPT ![a.Board][y][x] = dcs[j]], a, k, sols)}} :
            TRUE

backtrackAt(h, a, k, sols) ==
    CHOOSE out \in
        {IF r.err # "" THEN [heap |-> r.heap, stop |-> FALSE, solutions |-> sols]
         ELSE LET fe == FirstEmpty(r.heap[r.ab.Board])
              IN  IF ~fe.found
                  THEN LET sols2 == Append(sols, [at |-> r.ab.Board,
                                                  board |-> r.heap[r.ab.Board]])
                       IN  [heap |-> r.heap, stop |-> Len(sols2) >= k,
                            solutions |-> sols2]
                  ELSE backtrackValuesAt(r.heap, r.ab, fe.y, fe.x,
                                         Decimals(r.heap[r.ab.Candidates][fe.y][fe.x]),
                                         1, k, sols) :
            r \in {AnnotateAt(h, a.Board)}} :
        TRUE

BacktrackAt(h, a, k) ==
    LET r == backtrackAt(h, a, k, <<>>)
    IN  [heap |-> r.heap, solved |-> r.stop, solutions |-> r.solutions]

\* CandidateLines: ab2 = ab.Copy(), the removals assign to ab2.Candidates.
CandidateLinesAt(h, a, ordCols, ordRows) ==
    LET cp == AnnotatedBoardCopy(h, a)
        r == CandidateLines(Load(cp.heap, cp.ab), ordCols, ordRows)
    IN  [heap |-> [cp.heap EXCEPT ![cp.ab.Candidates] = r.ab2.Candidates],
         ab2 |-> cp.ab,
         succeeded |-> r.succeeded]

HeapBoards == TestBoards \cup RewrittenBoards

InitHeap ==
    /\ bo = NoBoard
    /\ NoCall
    /\ NoCandidatesCall
    /\ \E b \in HeapBoards : heap = <<b>>
    /\ boAt = 1
    /\ abAt = [Board |-> 0, Candidates |-> 0]
    /\ resAt = <<>>
    /\ NoGenerate

valueVars == <<bo, ab, solverVars, linesVars, candVars, genVars>>

\* annotated, err := NewAnnotatedBoard(bo)
CallNewAnnotatedBoardAt ==
    /\ pc = "start"
    /\ LET r == NewAnnotatedBoardAt(heap, boAt)
       IN  /\ heap' = r.heap
           /\ abAt' = r.ab
           /\ err' = r.err
    /\ pc' = "annotated"
    /\ UNCHANGED <<boAt, resAt, valueVars>>

\* again, err := annotated.Annotate()
CallAnnotateAt ==
    /\ pc = "annotated"
    /\ LET r == AnnotateAt(heap, abAt.Board)
       IN  /\ heap' = r.heap
           /\ resAt' = [ab |-> r.ab, err |-> r.err]
    /\ pc' = "Annotate"
    /\ UNCHANGED <<boAt, abAt, err, valueVars>>

CallSingleCandidateAt ==
    /\ pc = "annotated"
    /\ \E k \in Ks :
         LET r == SingleCandidateAt(heap, abAt, k)
         IN  /\ heap' = r.heap
             /\ resAt' = [solved |-> r.solved, solutions |-> r.solutions]
    /\ pc' = "SingleCandidate"
    /\ UNCHANGED <<boAt, abAt, err, valueVars>>

CallBacktrackAt ==
    /\ pc = "annotated"
    /\ \E k \in Ks :
         LET r == BacktrackAt(heap, abAt, k)
         IN  /\ heap' = r.heap
             /\ resAt' = [solved |-> r.solved, solutions |-> r.solutions]
    /\ pc' = "Backtrack"
    /\ UNCHANGED <<boAt, abAt, err, valueVars>>

CallCandidateLinesAt ==
    /\ pc = "annotated"
    /\ err = ""
    /\ \E ordCols \in KeyOrders : \E ordRows \in KeyOrders :
         LET r == CandidateLinesAt(heap, abAt, ordCols, ordRows)
         IN  /\ heap' = r.heap
             /\ resAt' = [ab2 |-> r.ab2, succeeded |-> r.succeeded]
    /\ pc' = "CandidateLines"
    /\ UNCHANGED <<boAt, abAt, err, valueVars>>

NextHeap ==
    \/ CallNewAnnotatedBoardAt
    \/ CallAnnotateAt
    \/ CallSingleCandidateAt
    \/ CallBacktrackAt
    \/ CallCandidateLinesAt

SpecHeap == InitHeap /\ [][NextHeap]_vars

(***************************************************************************)
(* What the claims speak of, stated on boards as grids of numbers and      *)
(* independently of the operators above.                                   *)
(***************************************************************************)
BlockSide == CHOOSE r \in 1 .. Size : r * r = Size

\* Two different cells of one row, one column or one block.
SameUnit(c, d) ==
    /\ c # d
    /\ \/ c[1] = d[1]
       \/ c[2] = d[2]
       \/ /\ c[1] \div BlockSide = d[1] \div BlockSide
          /\ c[2] \div BlockSide = d[2] \div BlockSide

\* The other cells of the row, the column and the block of each cell.
Peers == [c \in Cells |-> {d \in Cells : SameUnit(c, d)}]

\* Some value greater than 0 occurs twice in a row, a column or a block.
HasDuplicate(b) ==
    \E c \in Cells :
        b[c[1]][c[2]] > 0 /\ \E d \in Peers[c] : b[c[1]][c[2]] = b[d[1]][d[2]]

\* The values placed in the row, the column and the block of cell c.
Placed(b, c) == {b[d[1]][d[2]] : d \in Peers[c]} \ {0}

\* The set of values a bitmask stands for.
Bits(c) == {v \in 0 .. (Size + 1) : (c \div 2 ^ v) % 2 = 1}

IsComplete(b) == \A c \in Cells : b[c[1]][c[2]] \in Values

\* g keeps every given of b.
Agrees(b, g) == \A c \in Cells : b[c[1]][c[2]] # 0 => g[c[1]][c[2]] = b[c[1]][c[2]]

\* All complete duplicate-free grids, built row by row.
RowPerms == {p \in [Idx -> Values] : \A i \in Idx : \A j \in Idx : i # j => p[i] # p[j]}

\* Row r may follow the rows above it as row y.
RowFits(rows, y, r) ==
    \A y2 \in 0 .. (y - 1) : \A x \in Idx : \A x2 \in Idx :
        SameUnit(<<y, x>>, <<y2, x2>>) => r[x] # rows[y2 + 1][x2]

RECURSIVE SolvedRows(_)
SolvedRows(n) ==
    IF n = 0 THEN {<<>>}
    ELSE UNION {{Append(rows, r) : r \in {q \in RowPerms : RowFits(rows, n - 1, q)}} :
                rows \in SolvedRows(n - 1)}

AllSolved == {[y \in Idx |-> rows[y + 1]] : rows \in SolvedRows(Size)}

\* The complete valid completions of b.
Completions(b) == {g \in AllSolved : Agrees(b, g)}

\* Row-major sequence of the cells of a board, and its lexicographic order.
Flat(b) == [i \in 1 .. (Size * Size) |-> b[(i - 1) \div Size][(i - 1) % Size]]

LexGreater(g, h) ==
    LET fg == Flat(g)
        fh == Flat(h)
    IN  \E i \in 1 .. (Size * Size) :
            /\ fg[i] > fh[i]
            /\ \A j \in 1 .. (i - 1) : fg[j] = fh[j]

Min(a, b) == IF a <= b THEN a ELSE b

(***************************************************************************)
(* C1.  For every board without a duplicate in a row, column or block,     *)
(* NewAnnotatedBoard (Annotate) succeeds and returns a candidate grid in   *)
(* which a filled cell has exactly the singleton of its value and an empty *)
(* cell has exactly {1..N} minus the values placed in its row, column and  *)
(* block; for the diagonal test board the grid is                          *)
(* 2,24,20,12 / 24,4,18,10 / 20,18,8,6 / 12,10,6,16.                       *)
(***************************************************************************)
annotated4 ==
    Grid(Row(2, 24, 20, 12), Row(24, 4, 18, 10), Row(20, 18, 8, 6), Row(12, 10, 6, 16))

C1_AnnotateCandidates ==
    (pc = "annotated" /\ ~HasDuplicate(bo)) =>
        /\ err = ""
        /\ ab.Board = bo
        /\ \A c \in Cells :
             Bits(ab.Candidates[c[1]][c[2]]) =
                 IF bo[c[1]][c[2]] > 0 THEN {bo[c[1]][c[2]]}
                 ELSE Values \ Placed(bo, c)
        /\ bo = unsolved4 => ab.Candidates = annotated4

C1_Witness ==
    /\ pc = "annotated"
    /\ bo = unsolved4
    /\ err = ""
    /\ ab.Candidates[0][0] = 2
    /\ ab.Candidates[0][1] = 24

(***************************************************************************)
(* C2.  Annotate returns the "Not Solvable." error if and only if some     *)
(* value greater than 0 occurs at least twice in one row, one column or    *)
(* one block; on every other board it returns no error.                    *)
(***************************************************************************)
C2_ErrorIffDuplicate ==
    pc = "annotated" =>
        /\ err \in {"", "Not Solvable."}
        /\ (err = "Not Solvable.") <=> HasDuplicate(bo)

\* A board whose only duplicate lies in a block (not in a row, not in a column).
C2_Witness ==
    /\ pc = "annotated"
    /\ err = "Not Solvable."
    /\ \A c \in Cells : \A d \in Cells :
         (c # d /\ bo[c[1]][c[2]] > 0 /\ bo[c[1]][c[2]] = bo[d[1]][d[2]])
             => (c[1] # d[1] /\ c[2] # d[2])

SolutionSet == {solutions[i] : i \in 1 .. Len(solutions)}

(***************************************************************************)
(* C3.  For every duplicate-free board and every maxSolutions k >= 1,      *)
(* Backtrack returns exactly min(k, C) boards, C the number of complete    *)
(* valid completions of the input: never more than k, exactly k when at    *)
(* least k completions exist, and every completion when C <= k.            *)
(***************************************************************************)
C3_BacktrackCount ==
    (pc = "Backtrack" /\ ~HasDuplicate(bo) /\ maxSolutions >= 1) =>
        LET C == Completions(bo)
        IN  /\ Len(solutions) = Min(maxSolutions, Cardinality(C))
            /\ Cardinality(SolutionSet) = Len(solutions)
            /\ SolutionSet \subseteq C
            /\ Cardinality(C) <= maxSolutions => SolutionSet = C

\* The search stopped early: more completions exist than were asked for.
C3_Witness ==
    /\ pc = "Backtrack"
    /\ ~HasDuplicate(bo)
    /\ maxSolutions = 2
    /\ Cardinality(Completions(bo)) > 2
    /\ Len(solutions) = 2

(***************************************************************************)
(* C4.  The boolean returned by Backtrack is true exactly when at least    *)
(* one solution was found: true whenever the returned list is non-empty    *)
(* (also when the board has fewer completions than maxSolutions), false    *)
(* together with an empty list when there is no completion.                *)
(***************************************************************************)
C4_SolvedIffFound ==
    pc = "Backtrack" => (solved <=> Len(solutions) >= 1)

(***************************************************************************)
(* C5.  Backtrack called with maxSolutions = -1 is unbounded: it returns   *)
(* every completion of the input board and does not stop after the first.  *)
(***************************************************************************)
C5_MinusOneUnbounded ==
    (pc = "Backtrack" /\ maxSolutions = -1 /\ ~HasDuplicate(bo)) =>
        SolutionSet = Completions(bo)

(***************************************************************************)
(* C6.  Every board in the list returned by Backtrack is complete, has no  *)
(* duplicate in any row, column or block, agrees with the input board on   *)
(* every cell filled in the input, and no two boards of the list are equal.*)
(***************************************************************************)
C6_SolutionsValid ==
    pc = "Backtrack" =>
        /\ \A i \in 1 .. Len(solutions) :
             /\ IsComplete(solutions[i])
             /\ ~HasDuplicate(solutions[i])
             /\ Agrees(bo, solutions[i])
        /\ \A i \in 1 .. Len(solutions) : \A j \in 1 .. Len(solutions) :
             i # j => solutions[i] # solutions[j]

C6_Witness ==
    /\ pc = "Backtrack"
    /\ Len(solutions) = 2
    /\ \E c \in Cells : bo[c[1]][c[2]] > 0
    /\ \E c \in Cells : bo[c[1]][c[2]] = 0

(***************************************************************************)
(* C7.  Backtrack branches on the first empty cell in row-major order and  *)
(* tries its candidates in descending order: the returned boards are in    *)
(* strictly descending lexicographic order of their row-major cells and    *)
(* the first returned board is the lexicographically greatest completion   *)
(* of the input (for the empty board, the one whose first row counts down  *)
(* from N to 1).                                                           *)
(***************************************************************************)
C7_DescendingOrder ==
    pc = "Backtrack" =>
        /\ LET fe == FirstEmpty(bo)
           IN  /\ fe.found <=> ~IsComplete(bo)
               /\ fe.found =>
                    /\ bo[fe.y][fe.x] = 0
                    /\ \A c \in Cells :
                         (c[1] * Size + c[2] < fe.y * Size + fe.x) => bo[c[1]][c[2]] # 0
        /\ \A i \in 1 .. Len(solutions) : \A j \in 1 .. Len(solutions) :
             i < j => LexGreater(solutions[i], solutions[j])
        /\ Len(solutions) >= 1 =>
             /\ solutions[1] \in Completions(bo)
             /\ \A g \in Completions(bo) :
                  g # solutions[1] => LexGreater(solutions[1], g)
        /\ (bo = unsolved4c /\ Len(solutions) >= 1) =>
             \A x \in Idx : solutions[1][0][x] = Size - x

C7_Witness ==
    /\ pc = "Backtrack"
    /\ bo = unsolved4c
    /\ Len(solutions) = 2
    /\ LexGreater(solutions[1], solutions[2])

(***************************************************************************)
(* The single-candidate strategy as the claims describe it: fill one empty *)
(* cell whose candidate set is a singleton, re-annotate, repeat.           *)
(***************************************************************************)
CandSet(b, c) == Values \ Placed(b, c)

Forced(b) == {c \in Cells : b[c[1]][c[2]] = 0 /\ Cardinality(CandSet(b, c)) = 1}

RECURSIVE SinglesClosure(_)
SinglesClosure(b) ==
    IF Forced(b) = {} THEN b
    ELSE LET c == CHOOSE d \in Forced(b) : TRUE
         IN  SinglesClosure([b EXCEPT ![c[1]][c[2]] = CHOOSE v \in CandSet(b, c) : TRUE])

SinglesComplete(b) == IsComplete(SinglesClosure(b))

(***************************************************************************)
(* C8.  For every duplicate-free board that can be completed by repeatedly *)
(* filling empty cells whose candidate set is a singleton and              *)
(* re-annotating, SingleCandidate on its annotation returns solved = true  *)
(* and a one-element list holding the unique completion of the board       *)
(* (full, duplicate-free, equal to the input on all givens).               *)
(***************************************************************************)
C8_SinglesSolved ==
    (pc = "SingleCandidate" /\ ~HasDuplicate(bo) /\ SinglesComplete(bo)) =>
        /\ solved
        /\ Len(solutions) = 1
        /\ Completions(bo) = {solutions[1]}
        /\ IsComplete(solutions[1])
        /\ ~HasDuplicate(solutions[1])
        /\ Agrees(bo, solutions[1])

\* The test board, which needs more than one scan.
C8_Witness ==
    /\ pc = "SingleCandidate"
    /\ bo = unsolved4b
    /\ solved
    /\ solutions = <<solved4>>
    /\ scans > 2

(***************************************************************************)
(* C9 as claimed.  For every duplicate-free board that the single-         *)
(* candidate strategy cannot complete, SingleCandidate returns solved =    *)
(* false and a board equal, cell for cell, to the original input board.    *)
(***************************************************************************)
C9_ReturnsInputUnchanged ==
    (pc = "SingleCandidate" /\ ~HasDuplicate(bo) /\ ~SinglesComplete(bo)) =>
        /\ ~solved
        /\ solutions = <<bo>>

(***************************************************************************)
(* C9 as amended.  For every duplicate-free board that the single-         *)
(* candidate strategy cannot complete, SingleCandidate returns solved =    *)
(* false and one board that equals the input on every cell filled in the   *)
(* input (cells it filled before it got stuck stay filled); the board is   *)
(* equal, cell for cell, to the input when no empty cell of the input has  *)
(* a singleton candidate set.                                              *)
(***************************************************************************)
C9_ReturnsGivensUnchanged ==
    (pc = "SingleCandidate" /\ ~HasDuplicate(bo) /\ ~SinglesComplete(bo)) =>
        /\ ~solved
        /\ Len(solutions) = 1
        /\ Agrees(bo, solutions[1])
        /\ Forced(bo) = {} => solutions[1] = bo

\* The strategy filled some cells and then got stuck.
C9_Witness ==
    /\ pc = "SingleCandidate"
    /\ ~HasDuplicate(bo)
    /\ ~SinglesComplete(bo)
    /\ ~solved
    /\ solutions[1] # bo
    /\ annotateErr = ""

(***************************************************************************)
(* C10.  When the re-annotation inside SingleCandidate finds a             *)
(* contradiction, SingleCandidate does not report success: it returns      *)
(* solved = false together with exactly one board, whatever maxSolutions   *)
(* was requested.                                                          *)
(***************************************************************************)
C10_ContradictionNotSolved ==
    (pc = "SingleCandidate" /\ annotateErr # "") =>
        /\ ~solved
        /\ Len(solutions) = 1

\* A duplicate-free input on which one scan commits a value twice in a unit.
C10_Witness ==
    /\ pc = "SingleCandidate"
    /\ ~HasDuplicate(bo)
    /\ annotateErr = "Not Solvable."
    /\ HasDuplicate(solutions[1])
    /\ maxSolutions = 2
    /\ ~solved

(***************************************************************************)
(* C11.  CandidateLines only removes candidates: for every cell the output *)
(* candidate set is a subset of the input candidate set, also when the     *)
(* input is the output of an earlier pass, and the returned boolean is     *)
(* true if and only if the candidate set of at least one cell differs      *)
(* between output and input.                                               *)
(***************************************************************************)
C11_OnlyRemoves ==
    pc = "CandidateLines" =>
        /\ \A c \in Cells :
             Bits(ab2.Candidates[c[1]][c[2]]) \subseteq Bits(lin.Candidates[c[1]][c[2]])
        /\ succeeded <=> \E c \in Cells :
                            ab2.Candidates[c[1]][c[2]] # lin.Candidates[c[1]][c[2]]
        /\ ab2.Board = lin.Board

\* A second pass, on the output of the first, that removes some more.
C11_Witness ==
    /\ pc = "CandidateLines"
    /\ lin # ab
    /\ succeeded
    /\ \E c \in Cells :
         /\ ab2.Candidates[c[1]][c[2]] # lin.Candidates[c[1]][c[2]]
         /\ Bits(ab2.Candidates[c[1]][c[2]]) \subseteq Bits(lin.Candidates[c[1]][c[2]])

(***************************************************************************)
(* Blocks and the occurrences of a value among the candidates of a block.  *)
(***************************************************************************)
Blocks == (0 .. (BlockSide - 1)) \X (0 .. (BlockSide - 1))

BlockCells(blk) ==
    {c \in Cells : c[1] \div BlockSide = blk[1] /\ c[2] \div BlockSide = blk[2]}

\* v is a candidate of cell c in the grid cands.
Has(cands, c, v) == v \in Bits(cands[c[1]][c[2]])

Occurs(cands, blk, v) == {c \in BlockCells(blk) : Has(cands, c, v)}

\* The cells of S lie in one row (one column), and S is not empty.
OneRow(S) == Cardinality({c[1] : c \in S}) = 1
OneCol(S) == Cardinality({c[2] : c \in S}) = 1

\* The cells of the row (column) of the cells of S that lie outside block blk.
RowOutside(S, blk) == {d \in Cells \ BlockCells(blk) : \E c \in S : d[1] = c[1]}
ColOutside(S, blk) == {d \in Cells \ BlockCells(blk) : \E c \in S : d[2] = c[2]}

Members(c) == {v \in 0 .. (MaxValue + 1) : (c \div 2 ^ v) % 2 = 1}

\* The elements of a sequence, and a strictly descending sequence.
Elems(q) == {q[i] : i \in 1 .. Len(q)}
Descending(q) == \A i \in 1 .. (Len(q) - 1) : q[i] > q[i + 1]

(***************************************************************************)
(* C13.  The Candidates bitmask refines a set of values in {1..N}: Add(v)  *)
(* is the set united with {v} and Remove(v) the set without v (a no-op     *)
(* when already so, the membership of every other value unchanged, and     *)
(* commuting with Add and Remove of other values), Contains(v) is          *)
(* membership, Single() is true exactly for a set of one member,           *)
(* allCandidates(N) is {1..N}, and Decimals() lists exactly the members in *)
(* strictly descending order (4,3,2,1 for the full set of size 4).         *)
(***************************************************************************)
C13_RefinesSet ==
    LET S == Members(candidates)
        others == (1 .. MaxValue) \ {arg}
    IN  /\ pc = "Add" =>
             /\ Members(res) = S \cup {arg}
             /\ arg \in S => res = candidates
             /\ \A w \in others :
                  /\ Add(Add(candidates, w), arg) = Add(res, w)
                  /\ Add(Remove(candidates, w), arg) = Remove(res, w)
        /\ pc = "Remove" =>
             /\ Members(res) = S \ {arg}
             /\ arg \notin S => res = candidates
             /\ \A w \in others :
                  /\ Remove(Add(candidates, w), arg) = Add(res, w)
                  /\ Remove(Remove(candidates, w), arg) = Remove(res, w)
        /\ pc = "Contains" => (res <=> arg \in S)
        /\ pc = "Single" => (res <=> Cardinality(S) = 1)
        /\ pc = "allCandidates" => Members(res) = 1 .. arg
        /\ pc = "Decimals" =>
             /\ Elems(res) = S
             /\ Descending(res)
             /\ S = 1 .. 4 => res = <<4, 3, 2, 1>>

\* The steps of the test: 9 and 1 added, then Remove(7), which changes nothing.
C13_Witness ==
    /\ pc = "Remove"
    /\ Members(candidates) = {1, 9}
    /\ arg = 7
    /\ res = candidates

(***************************************************************************)
(* C14.  For every candidate set c and every domain size N,                *)
(* c.Complement(N) is exactly the set of the values in [1, N] that are not *)
(* in c; in particular the complement of the full set is empty and         *)
(* complementing twice returns c.                                          *)
(***************************************************************************)
C14_ComplementInDomain ==
    pc = "Complement" =>
        /\ res >= 0
        /\ Members(res) = (1 .. arg) \ Members(candidates)
        /\ candidates = allCandidates(arg) => res = 0
        /\ Complement(res, arg) = candidates

(***************************************************************************)
(* C15.  For every annotated board returned by Annotate without error,     *)
(* Solved() returns true only if the board is solved correctly, that is    *)
(* every cell of the board is filled and no row, column or block contains  *)
(* a duplicate; and it returns true for every such correctly solved board. *)
(***************************************************************************)
C15_SolvedIffSolvedCorrectly ==
    (pc = "Solved" /\ err = "") =>
        (solved <=> (IsComplete(bo) /\ ~HasDuplicate(bo)))

(***************************************************************************)
(* The places the caller holds: its board, its annotated board and what    *)
(* the last call returned.                                                 *)
(***************************************************************************)
ReturnedPlaces ==
    IF pc \in {"SingleCandidate", "Backtrack"}
    THEN [i \in 1 .. Len(resAt.solutions) |-> resAt.solutions[i].at]
    ELSE IF pc = "CandidateLines" THEN <<resAt.ab2.Board, resAt.ab2.Candidates>>
    ELSE IF pc = "Annotate" THEN <<resAt.ab.Board, resAt.ab.Candidates>>
    ELSE <<>>

HeldPlaces ==
    <<boAt>> \o (IF pc = "start" THEN <<>> ELSE <<abAt.Board, abAt.Candidates>>)
             \o ReturnedPlaces

\* No two of the boards and grids the caller holds share their cells.
NoSharing ==
    \A i \in 1 .. Len(HeldPlaces) : \A j \in 1 .. Len(HeldPlaces) :
        i # j => HeldPlaces[i] # HeldPlaces[j]

\* Every returned board still holds the cells it held when it was put in the list.
AppendedUnchanged ==
    pc \in {"SingleCandidate", "Backtrack"} =>
        \A i \in 1 .. Len(resAt.solutions) :
            heap[resAt.solutions[i].at] = resAt.solutions[i].board

(***************************************************************************)
(* C16.  Boards and annotated boards are never mutated in place:           *)
(* NewAnnotatedBoard, Annotate, SingleCandidate, Backtrack and             *)
(* CandidateLines leave every board and candidate grid that exists when    *)
(* they are called unchanged, a board that Backtrack has appended to its   *)
(* solution list is not modified by the rest of the search, and no two     *)
(* results share cells with each other or with the input.                  *)
(***************************************************************************)
C16_NeverMutatedInPlace ==
    [][/\ \A a \in DOMAIN heap : heap'[a] = heap[a]
       /\ NoSharing'
       /\ AppendedUnchanged']_vars

\* Backtrack went on searching after it had appended a first solution.
C16_Witness ==
    /\ pc = "Backtrack"
    /\ Len(resAt.solutions) = 2
    /\ ~IsComplete(heap[boAt])
    /\ heap[resAt.solutions[1].at] # heap[resAt.solutions[2].at]

\* The number of non-empty cells of b.
Givens(b) == Cardinality({c \in Cells : b[c[1]][c[2]] # 0})

(***************************************************************************)
(* C17.  For every complete valid board, every minimum and every order of  *)
(* the shuffle, GenerateSimple returns a board whose non-empty cells equal *)
(* the cells of the input board and which the single-candidate strategy    *)
(* alone solves: SingleCandidate on its annotation returns solved = TRUE   *)
(* and the input board.                                                    *)
(***************************************************************************)
C17_GeneratedSolvable ==
    pc = "GenerateSimple" =>
        /\ Agrees(unsolved, random)
        /\ LET r == SingleCandidate(NewAnnotatedBoard(unsolved), 1)
           IN  r.solved /\ r.solutions = <<random>>

\* Every field was tried (minimum is ignored) and some were put back.
C17_Witness ==
    /\ pc = "GenerateSimple"
    /\ minimum = 0
    /\ Givens(unsolved) > 0
    /\ Givens(unsolved) < Size * Size

(***************************************************************************)
(* C18.  For every complete valid board of side N, every minimum with      *)
(* 0 < minimum < N*N and every order of the shuffle, GenerateSimple        *)
(* returns a board with exactly minimum non-empty cells.                   *)
(***************************************************************************)
C18_ExactlyMinimum ==
    (pc = "GenerateSimple" /\ 0 < minimum /\ minimum < Size * Size) =>
        Givens(unsolved) = minimum

\* What one block deduces from the grid cands: v cannot stay in cell d, a cell
\* outside block blk in the one row (column) of the block that holds v.
Deduces(cands, blk, d, v) ==
    LET occ == Occurs(cands, blk, v)
    IN  \/ OneRow(occ) /\ d \in RowOutside(occ, blk)
        \/ OneCol(occ) /\ d \in ColOutside(occ, blk)

(***************************************************************************)
(* C19.  Within one CandidateLines pass the row and column occurrence maps *)
(* of every block are computed from the candidates of the input only: the  *)
(* output is the input with exactly the removals applied that the blocks   *)
(* deduce from the input.                                                  *)
(***************************************************************************)
C19_MapsFromInput ==
    pc = "CandidateLines" =>
        \A d \in Cells : \A v \in Values :
            Has(ab2.Candidates, d, v) <=>
                /\ Has(lin.Candidates, d, v)
                /\ ~\E blk \in Blocks : Deduces(lin.Candidates, blk, d, v)

\* The number of non-empty cells of a board of any side.
Filled(b) == Cardinality({c \in (DOMAIN b) \X (DOMAIN b[0]) : b[c[1]][c[2]] # 0})

(***************************************************************************)
(* C20 as claimed.  SingleCandidate terminates on every annotated board:   *)
(* the scan loop runs at most N*N times for a board of side N.             *)
(***************************************************************************)
C20_AtMostNSquared ==
    pc = "SingleCandidate" => scans <= BoardSize(bo) * BoardSize(bo)

(***************************************************************************)
(* C20 as amended.  SingleCandidate terminates on every annotated board,   *)
(* including boards that become contradictory during the loop: every scan  *)
(* but the last fills at least one previously empty cell, so the scan loop *)
(* runs at most N*N + 1 times for a board of side N, and at most N*N times *)
(* when N > 1.                                                             *)
(***************************************************************************)
C20_ScansBounded ==
    pc = "SingleCandidate" =>
        LET n == BoardSize(bo)
        IN  /\ Filled(solutions[1]) - Filled(bo) >= scans - 1
            /\ scans <= n * n + 1
            /\ n > 1 => scans <= n * n

\* A board that becomes contradictory in the loop, after scans that filled cells.
C20_Witness ==
    /\ pc = "SingleCandidate"
    /\ err = ""
    /\ annotateErr # ""
    /\ scans >= 2
    /\ Filled(solutions[1]) > Filled(bo)

(***************************************************************************)
(* C21.  CandidateLines is sound on a board annotated by Annotate: it      *)
(* never removes from a cell the value the cell has in a valid completion  *)
(* of the board, so every completion is still contained cell by cell in    *)
(* the output candidates; the candidate set of a filled cell stays the     *)
(* singleton of its value, and the board is returned unchanged.            *)
(***************************************************************************)
C21_Sound ==
    pc = "CandidateLines" =>
        /\ ab2.Board = lin.Board
        /\ lin.Board = bo
        /\ \A g \in AllSolved :
              Agrees(bo, g) =>
                 \A c \in Cells : Has(ab2.Candidates, c, g[c[1]][c[2]])
        /\ \A c \in Cells :
              bo[c[1]][c[2]] > 0 => Bits(ab2.Candidates[c[1]][c[2]]) = {bo[c[1]][c[2]]}

\* A pass that removed a candidate from a board with several completions,
\* some cells of which are filled.
C21_Witness ==
    /\ pc = "CandidateLines"
    /\ lin = ab
    /\ succeeded
    /\ Cardinality(Completions(bo)) > 1
    /\ \E c \in Cells : bo[c[1]][c[2]] > 0

(***************************************************************************)
(* C22.  SingleCandidate is sound on a board that has a valid completion   *)
(* and whose candidate grid is the one Annotate computes for it: every     *)
(* value it writes into an empty cell is the value of that cell in every   *)
(* completion, it never changes a cell that was filled, and the board it   *)
(* returns, solved or not, has no duplicate in a row, column or block.     *)
(***************************************************************************)
C22_Sound ==
    (pc = "SingleCandidate" /\ err = "" /\ Completions(bo) # {}) =>
        /\ Len(solutions) = 1
        /\ \A g \in Completions(bo) : Agrees(solutions[1], g)
        /\ Agrees(bo, solutions[1])
        /\ ~HasDuplicate(solutions[1])

\* The strategy wrote values into a board with several completions and
\* then got stuck.
C22_Witness ==
    /\ pc = "SingleCandidate"
    /\ err = ""
    /\ Cardinality(Completions(bo)) > 1
    /\ solutions[1] # bo
    /\ ~solved

(***************************************************************************)
(* CandidateLines with the two removal loops of a block exchanged: the     *)
(* row loop runs before the column loop.                                   *)
(***************************************************************************)
linesBlockRowsFirst(st, size, blockSize, blkY, blkX, ordCols, ordRows) ==
    LET rowsNot == rowsNotInBlock(size, blockSize, blkY)
        colsNot == colsNotInBlock(size, blockSize, blkX)
        mRows == inRows(st.Candidates, size, blockSize, blkY, blkX)
        mCols == inCols(st.Candidates, size, blockSize, blkY, blkX)
        st1 == inRowsLoop(st, mRows, mapKeys(mRows, ordRows), 1, colsNot)
    IN  inColsLoop(st1, mCols, mapKeys(mCols, ordCols), 1, rowsNot)

RECURSIVE linesBlocksRowsFirst(_, _, _, _, _, _)
linesBlocksRowsFirst(st, size, blockSize, i, ordCols, ordRows) ==
    IF i = blockSize * blockSize THEN st
    ELSE linesBlocksRowsFirst(
             linesBlockRowsFirst(st, size, blockSize, i \div blockSize, i % blockSize,
                                 ordCols, ordRows),
             size, blockSize, i + 1, ordCols, ordRows)

CandidateLinesRowsFirst(a, ordCols, ordRows) ==
    LET size == BoardSize(a.Board)
        blockSize == sqrt(size)
        st == linesBlocksRowsFirst([Candidates |-> a.Candidates, succeeded |-> FALSE],
                                   size, blockSize, 0, ordCols, ordRows)
    IN  [ab2 |-> [Board |-> a.Board, Candidates |-> st.Candidates],
         succeeded |-> st.succeeded]

(***************************************************************************)
(* C23.  The result of CandidateLines, the output candidates and the       *)
(* returned boolean, is the same for every order in which the keys of      *)
(* inRows and inCols are visited and for either order of the column loop   *)
(* and the row loop within a block: two runs on the same input return      *)
(* equal results.                                                          *)
(***************************************************************************)
C23_OrderIndependent ==
    pc = "CandidateLines" =>
        \A ordCols \in KeyOrders : \A ordRows \in KeyOrders :
            /\ CandidateLines(lin, ordCols, ordRows) =
                  [ab2 |-> ab2, succeeded |-> succeeded]
            /\ CandidateLinesRowsFirst(lin, ordCols, ordRows) =
                  [ab2 |-> ab2, succeeded |-> succeeded]

\* A pass in which one block removed two values, each confined to one line
\* of the block: the loops of that block visited two keys that remove.
C23_Witness ==
    /\ pc = "CandidateLines"
    /\ lin = ab
    /\ \E blk \in Blocks : \E v \in Values : \E w \in Values \ {v} :
         LET occV == Occurs(lin.Candidates, blk, v)
             occW == Occurs(lin.Candidates, blk, w)
         IN  /\ OneRow(occV)
             /\ OneCol(occW)
             /\ \E d \in RowOutside(occV, blk) :
                    Has(lin.Candidates, d, v) /\ ~Has(ab2.Candidates, d, v)
             /\ \E d \in ColOutside(occW, blk) :
                    Has(lin.Candidates, d, w) /\ ~Has(ab2.Candidates, d, w)
====
